---- MODULE Spec2Model ----
(***************************************************************************)
(* A model of the NMEA 0183 decoder: the Sentence Reader                   *)
(* (NMEASentenceReader::next), the checksum validator, the address         *)
(* classifier / decoder, the field splitter, the formatter parsers and     *)
(* the driver loop of main.                                                *)
(*                                                                         *)
(* Bytes are the integers 0..255.  A frame (NMEASentence) is a record      *)
(* [characters, length] whose characters field is a sequence of exactly    *)
(* NMEA_SENTENCE_MAX_LENGTH bytes; position i of the Rust array is         *)
(* position i+1 of the sequence.                                           *)
(***************************************************************************)
EXTENDS Integers, Sequences, FiniteSets, TLC

VARIABLES
    source,     \* the bytes of the byte source, fixed for one run
    pos,        \* how many bytes of source the BufReader has handed out
    results,    \* reader harness: one entry per call of next()
    idle,       \* reader harness: calls made after the source ran dry
    pc,         \* driver: "loop", "done" (break) or "panic" (abort)
    map,        \* driver: the per-formatter occurrence counter
    handled,    \* driver: what each loop iteration did, in order
    input,      \* pure-function harness: the argument under test
    out,        \* pure-function harness: what the function returned
    phase       \* pure-function harness: "input" or "done"

vars == <<source, pos, results, idle, pc, map, handled, input, out, phase>>

---------------------------------------------------------------------------
(* Program constants. *)

NMEA_SENTENCE_MAX_LENGTH == 82

SPACE == 32
DOLLAR == 36
BANG == 33
COMMA == 44
STAR == 42
CR == 13
LF == 10

(* Bounds of the model. *)

\* how many vocabulary segments make up a byte stream
MaxSegs == 3
\* how many calls of next() the harness makes after the source is dry
MaxIdleCalls == 2
\* the longest sentence body (between the start byte and CR LF) whose
\* checksum is tried
MaxChecksumBody == 4
\* the longest short frame handed to decode (the full 82 bytes are tried too)
MaxDecodeLen == 12
\* the longest payload handed to the field splitter
MaxPayloadLen == 5

---------------------------------------------------------------------------
(* Sequence helpers. *)

Run(b, n) == [i \in 1..n |-> b]

RECURSIVE Concats(_, _)
Concats(V, n) ==
    IF n = 0 THEN {<<>>}
    ELSE LET S == Concats(V, n - 1) IN S \cup {s \o v : s \in S, v \in V}

---------------------------------------------------------------------------
(* The Sentence Reader. *)

\* let mut sentence = [b' '; NMEA_SENTENCE_MAX_LENGTH]
BlankSentence == Run(SPACE, NMEA_SENTENCE_MAX_LENGTH)

NoFrame == [tag |-> "None"]
SomeFrame(chars, len) == [tag |-> "Some", characters |-> chars, length |-> len]
ReaderPanic == [tag |-> "Panic"]

\* BufRead::read_until(b'\n'): the last position of the line that starts at
\* position i of src (the delimiter included), or the end of the source.
LineEnd(src, i) ==
    LET D == {j \in i..Len(src) : src[j] = LF}
    IN IF D = {} THEN Len(src) ELSE CHOOSE j \in D : \A h \in D : j <= h

read_until(src, p) == SubSeq(src, p + 1, LineEnd(src, p + 1))

ScanStart ==
    [status |-> "NONE", length |-> 0, sentence |-> BlankSentence,
     returned |-> FALSE, panicked |-> FALSE]

\* sentence[sentence_length] = *byte; sentence_length += 1
\* (an index outside the array aborts the program)
Put(st, byte) ==
    IF st.length >= NMEA_SENTENCE_MAX_LENGTH
    THEN [st EXCEPT !.panicked = TRUE]
    ELSE [st EXCEPT !.sentence[st.length + 1] = byte, !.length = st.length + 1]

\* the limit of the STARTED arm: sentence_length > NMEA_SENTENCE_MAX_LENGTH - 2
TooLongOffByOne(len) == len > NMEA_SENTENCE_MAX_LENGTH - 3
TooLongLimitOneMore(len) == len > NMEA_SENTENCE_MAX_LENGTH - 1
TooLong(len) == len > NMEA_SENTENCE_MAX_LENGTH - 2

\* the oversized partial frame is dropped: sentence_length = 0, status NONE
\* (the bytes already written stay in the buffer)
DiscardOversizedKeepsCollecting(w) == [w EXCEPT !.length = 0]
DiscardOversized(w) == [w EXCEPT !.length = 0, !.status = "NONE"]

\* the TERMINATED arm of the match
ScanTerminatedWantsCR(st, byte) ==
    LET w == Put(st, byte) IN
    IF w.panicked THEN w
    ELSE IF byte = CR THEN [w EXCEPT !.status = "COMPLETED"]
    ELSE [w EXCEPT !.length = 0, !.status = "NONE"]
ScanTerminated(st, byte) ==
    LET w == Put(st, byte) IN
    IF w.panicked THEN w
    ELSE IF byte = LF THEN [w EXCEPT !.status = "COMPLETED"]
    ELSE [w EXCEPT !.length = 0, !.status = "NONE"]

\* one iteration of  for byte in buf.iter() { match sentence_status ... }
ScanByte(st, byte) ==
    CASE st.status = "NONE" ->
            IF byte = DOLLAR \/ byte = BANG
            THEN LET w == Put(st, byte) IN
                 IF w.panicked THEN w ELSE [w EXCEPT !.status = "STARTED"]
            ELSE st
      [] st.status = "STARTED" ->
            LET w == Put(st, byte) IN
            IF w.panicked THEN w
            ELSE IF byte = CR THEN [w EXCEPT !.status = "TERMINATED"]
            ELSE IF TooLong(w.length)
                 THEN DiscardOversized(w)
                 ELSE w
      [] st.status = "TERMINATED" -> ScanTerminated(st, byte)
      [] st.status = "COMPLETED" -> [st EXCEPT !.returned = TRUE]

\* one iteration of the loop, which a return or an abort has ended
ScanStep(st, byte) ==
    IF st.returned \/ st.panicked THEN st ELSE ScanByte(st, byte)

\* for byte in buf.iter() over the bytes lo..hi of buf, in order (the range
\* is split in halves only to keep the evaluation shallow)
RECURSIVE ScanLoop(_, _, _, _)
ScanLoop(buf, lo, hi, st) ==
    IF lo > hi THEN st
    ELSE IF lo = hi THEN ScanStep(st, buf[lo])
    ELSE LET mid == (lo + hi) \div 2
             half == ScanLoop(buf, lo, mid, st)
         IN IF half.returned \/ half.panicked THEN half
            ELSE ScanLoop(buf, mid + 1, hi, half)

\* The scanner's state after the first n bytes of the line buf.
ScanPrefix(buf, n) == ScanLoop(buf, 1, n, ScanStart)

\* NMEASentenceReader::next on the line buf just read
ScanLine(buf) ==
    IF Len(buf) < 1 THEN NoFrame
    ELSE LET st == ScanLoop(buf, 1, Len(buf), ScanStart) IN
         IF st.panicked THEN ReaderPanic
         ELSE IF st.status = "COMPLETED" THEN SomeFrame(st.sentence, st.length)
         ELSE NoFrame

\* NMEASentenceReader::next with the BufReader at position p of src
next(src, p) == ScanLine(read_until(src, p))

\* the occupied bytes of a frame
Occupied(f) == SubSeq(f.characters, 1, f.length)

---------------------------------------------------------------------------
(* Byte streams: concatenations of at most MaxSegs vocabulary segments. *)

\* the payload and noise byte of the streams: b'X'
CH_X == 88

\* "$GP\r\n"
SHORT_SENTENCE == <<DOLLAR, 71, 80, CR, LF>>
\* "!AI\r\n"
BANG_SENTENCE == <<BANG, 65, 73, CR, LF>>
\* '$', 79 payload bytes, CR LF: the longest sentence, 82 bytes
LONGEST_SENTENCE == <<DOLLAR>> \o Run(CH_X, NMEA_SENTENCE_MAX_LENGTH - 3) \o <<CR, LF>>
\* '$' followed by 80 payload bytes and no terminator
OVERSIZED == <<DOLLAR>> \o Run(CH_X, NMEA_SENTENCE_MAX_LENGTH - 2)
\* "$GP\r": a frame cut off after the carriage return
PARTIAL == <<DOLLAR, 71, 80, CR>>

ReaderVocabulary ==
    { <<DOLLAR>>, <<BANG>>, <<CR>>, <<LF>>, <<CH_X>>,
      SHORT_SENTENCE, BANG_SENTENCE, LONGEST_SENTENCE, OVERSIZED, PARTIAL }

ReaderStreams == Concats(ReaderVocabulary, MaxSegs)

---------------------------------------------------------------------------
(* The reader harness: next() called again and again on one byte source. *)

NoMap == <<>>

InitReader ==
    /\ source \in ReaderStreams
    /\ pos = 0
    /\ results = <<>>
    /\ idle = 0
    /\ pc = "reader"
    /\ map = NoMap
    /\ handled = <<>>
    /\ input = NoFrame
    /\ out = NoFrame
    /\ phase = "none"

\* one call of next(): the entry records the line read and what came back
ReaderNext ==
    /\ pc = "reader"
    /\ pos < Len(source) \/ idle < MaxIdleCalls
    /\ LET e == LineEnd(source, pos + 1) IN
        /\ results' = Append(results,
                        [from |-> pos + 1, to |-> e, ret |-> next(source, pos)])
        /\ pos' = e
        /\ idle' = IF pos < Len(source) THEN idle ELSE idle + 1
    /\ UNCHANGED <<source, pc, map, handled, input, out, phase>>

NextReader == ReaderNext

SpecReader == InitReader /\ [][NextReader]_vars

---------------------------------------------------------------------------
(* What the claims about the reader speak of: sentences in the stream. *)

IsStartByte(b) == b = DOLLAR \/ b = BANG

\* a start byte, at most 79 bytes that are neither CR nor LF, then CR LF
WellFormed(s) ==
    /\ Len(s) >= 3
    /\ Len(s) <= NMEA_SENTENCE_MAX_LENGTH
    /\ IsStartByte(s[1])
    /\ s[Len(s) - 1] = CR
    /\ s[Len(s)] = LF
    /\ \A i \in 2..(Len(s) - 2) : s[i] # CR /\ s[i] # LF

Least(S) == CHOOSE i \in S : \A j \in S : i <= j

\* where the well-formed sentence that starts at position i of src ends, or 0
SentenceEnd(src, i) ==
    LET E == {j \in (i + 2)..Len(src) :
                 j - i + 1 <= NMEA_SENTENCE_MAX_LENGTH /\ WellFormed(SubSeq(src, i, j))}
    IN IF i < 1 \/ i > Len(src) \/ E = {} THEN 0 ELSE Least(E)

\* the first start byte among positions a..b of src, or 0
FirstStart(src, a, b) ==
    LET S == {i \in a..b : i >= 1 /\ i <= Len(src) /\ IsStartByte(src[i])}
    IN IF S = {} THEN 0 ELSE Least(S)

\* the well-formed sentence that starts at i lies inside one that starts earlier
Nested(src, i) ==
    \E h \in 1..(i - 1) : SentenceEnd(src, h) # 0 /\ SentenceEnd(src, h) >= SentenceEnd(src, i)

IsSome(r) == r.ret.tag = "Some"
IsNone(r) == r.ret.tag = "None"

\* where in the source the frame returned by the call r starts
FrameStart(r) == r.to - r.ret.length + 1

\* the line of call r is noise without a start byte, then a well-formed sentence
CleanLine(r) ==
    LET s == FirstStart(source, r.from, r.to)
    IN s # 0 /\ SentenceEnd(source, s) = r.to

\* C1 as stated: once the source is exhausted, every well-formed sentence of
\* the stream has been emitted as a frame whose occupied bytes are its bytes
\* (of well-formed sentences that share their terminator only the longest is
\* asked for here).
C1_EveryWellFormedSentenceEmitted ==
    pos = Len(source) =>
        \A i \in 1..Len(source) :
            (SentenceEnd(source, i) # 0 /\ ~Nested(source, i)) =>
                \E k \in DOMAIN results :
                    /\ IsSome(results[k])
                    /\ FrameStart(results[k]) = i
                    /\ Occupied(results[k].ret) =
                          SubSeq(source, i, SentenceEnd(source, i))

\* C1 (amended): the calls read the stream line by line in order; a line that
\* is noise without `$` or `!` followed by a well-formed sentence yields a
\* frame whose occupied bytes are that sentence; every frame emitted is a
\* well-formed sentence of the stream, the tail of the line of its call.
C1_CleanSentencesEmitted ==
    \A k \in DOMAIN results :
        LET r == results[k] IN
        /\ r.from = (IF k = 1 THEN 1 ELSE results[k - 1].to + 1)
        /\ r.ret.tag \in {"Some", "None"}
        /\ CleanLine(r) =>
              /\ IsSome(r)
              /\ Occupied(r.ret) =
                    SubSeq(source, FirstStart(source, r.from, r.to), r.to)
        /\ IsSome(r) =>
              /\ WellFormed(Occupied(r.ret))
              /\ FrameStart(r) >= r.from
              /\ Occupied(r.ret) = SubSeq(source, FrameStart(r), r.to)

\* a sentence preceded by noise on its line was emitted after a call that
\* yielded nothing, and the longest sentence was emitted too
C1_Witness ==
    \E k \in DOMAIN results :
        /\ k > 1
        /\ IsNone(results[k - 1])
        /\ CleanLine(results[k])
        /\ IsSome(results[k])
        /\ FrameStart(results[k]) > results[k].from

\* C2 as stated: a call returns no frame only when the source has no bytes
\* left, and after such a call no later call returns a frame.
C2_NoFrameOnlyAtExhaustion ==
    \A k \in DOMAIN results :
        IsNone(results[k]) =>
            /\ results[k].from > Len(source)
            /\ \A j \in DOMAIN results : j > k => IsNone(results[j])

\* C2 (amended): a call returns one frame or none; it returns none when the
\* source has no bytes left, and then so does every later call; while bytes
\* remain it returns none only for a line that is not noise without a start
\* byte followed by a well-formed sentence.
C2_NoFrameAtExhaustionOrBrokenLine ==
    \A k \in DOMAIN results :
        LET r == results[k] IN
        /\ r.ret.tag \in {"Some", "None"}
        /\ r.from > Len(source) =>
              /\ IsNone(r)
              /\ \A j \in DOMAIN results : j > k => IsNone(results[j])
        /\ (IsNone(r) /\ r.from <= Len(source)) => ~CleanLine(r)

\* a call returned nothing with bytes left, a later call returned a frame, and
\* two calls after exhaustion returned nothing
C2_Witness ==
    \E k \in DOMAIN results :
        /\ IsNone(results[k]) /\ results[k].from <= Len(source)
        /\ \E j \in DOMAIN results : j > k /\ IsSome(results[j])
        /\ idle >= 2

\* the line of call r starts a frame at s that runs to 80 payload bytes
\* (neither CR nor LF) with no terminator: the oversized span is s..s+80
Oversized(r, s) ==
    /\ s # 0
    /\ s + NMEA_SENTENCE_MAX_LENGTH - 2 <= r.to
    /\ \A i \in (s + 1)..(s + NMEA_SENTENCE_MAX_LENGTH - 2) :
          source[i] # CR /\ source[i] # LF

SpanEnd(s) == s + NMEA_SENTENCE_MAX_LENGTH - 2

\* the call whose line ends at position e has been made and returned exactly
\* the bytes t..e of the source
EmittedIntact(t, e) ==
    \A j \in DOMAIN results :
        (results[j].from <= e /\ results[j].to = e) =>
            IsSome(results[j]) /\ Occupied(results[j].ret) = SubSeq(source, t, e)

\* the first well-formed sentence that starts at a `$` after position q and
\* lies inside no well-formed sentence that starts after q, or 0
NextSentenceAfter(q) ==
    LET S == {i \in (q + 1)..Len(source) :
                 /\ source[i] = DOLLAR
                 /\ SentenceEnd(source, i) # 0
                 /\ \A h \in (q + 1)..(i - 1) :
                       SentenceEnd(source, h) < SentenceEnd(source, i)}
    IN IF S = {} THEN 0 ELSE Least(S)

\* C4 as stated: after an oversized span no frame holds a byte of it, the
\* reader is Idle again, and the next well-formed sentence that starts at a
\* later `$` is emitted intact.
C4_NextSentenceAfterOversized ==
    \A k \in DOMAIN results :
        LET r == results[k]
            s == FirstStart(source, r.from, r.to)
            t == NextSentenceAfter(SpanEnd(s))
        IN Oversized(r, s) =>
              /\ IsSome(r) => FrameStart(r) > SpanEnd(s)
              /\ ScanPrefix(read_until(source, r.from - 1),
                            SpanEnd(s) - r.from + 1).status = "NONE"
              /\ t # 0 => EmittedIntact(t, SentenceEnd(source, t))

\* C4 (amended): after a start byte read in Idle and 80 bytes that are
\* neither CR nor LF, no frame holds any of those 81 bytes, the reader is
\* Idle with nothing collected, and if the first `$` or `!` after them starts
\* a well-formed sentence, that sentence is emitted intact.
C4_ResumesAtNextStartByte ==
    \A k \in DOMAIN results :
        LET r == results[k]
            s == FirstStart(source, r.from, r.to)
            t == FirstStart(source, SpanEnd(s) + 1, Len(source))
            e == SentenceEnd(source, t)
            st == ScanPrefix(read_until(source, r.from - 1), SpanEnd(s) - r.from + 1)
        IN Oversized(r, s) =>
              /\ IsSome(r) => FrameStart(r) > SpanEnd(s)
              /\ st.status = "NONE" /\ st.length = 0
              /\ (t # 0 /\ e # 0) => EmittedIntact(t, e)

\* an oversized span was dropped and the sentence at the next start byte came
\* back intact, from the same call
C4_Witness ==
    \E k \in DOMAIN results :
        LET r == results[k]
            s == FirstStart(source, r.from, r.to)
            t == FirstStart(source, SpanEnd(s) + 1, Len(source))
            e == SentenceEnd(source, t)
        IN /\ Oversized(r, s)
           /\ t # 0 /\ e = r.to
           /\ IsSome(r) /\ Occupied(r.ret) = SubSeq(source, t, e)

---------------------------------------------------------------------------
(* Frames built directly, as the tests build them. *)

\* characters = the bytes of s, then b' ' up to the capacity; length = n
FrameOf(s, n) ==
    [characters |-> [i \in 1..NMEA_SENTENCE_MAX_LENGTH |->
                        IF i <= Len(s) THEN s[i] ELSE SPACE],
     length |-> n]

\* all byte sequences over the alphabet A of length at most n
RECURSIVE SeqsUpTo(_, _)
SeqsUpTo(A, n) ==
    IF n = 0 THEN {<<>>}
    ELSE LET S == SeqsUpTo(A, n - 1) IN S \cup {Append(s, a) : s \in S, a \in A}

Indices(s) == [i \in 1..Len(s) |-> i]

---------------------------------------------------------------------------
(* The Checksum Validator. *)

\* u8 ^ u8
RECURSIVE Xor(_, _)
Xor(a, b) ==
    IF a = 0 THEN b
    ELSE IF b = 0 THEN a
    ELSE (((a % 2) + (b % 2)) % 2) + 2 * Xor(a \div 2, b \div 2)

\* checksum ^= *c for the bytes lo..hi of s (split in halves to keep the
\* evaluation shallow; XOR is associative)
RECURSIVE XorRange(_, _, _)
XorRange(s, lo, hi) ==
    IF lo > hi THEN 0
    ELSE IF lo = hi THEN s[lo]
    ELSE LET mid == (lo + hi) \div 2
         IN Xor(XorRange(s, lo, mid), XorRange(s, mid + 1, hi))

\* .skip_while(|&c| *c == b'$' || *c == b'!' || *c == b','): the first
\* position that is kept, or Len + 1
SkipPrefixEnd(chars) ==
    LET K == {i \in 1..Len(chars) : chars[i] \notin {DOLLAR, BANG, COMMA}}
    IN IF K = {} THEN Len(chars) + 1 ELSE CHOOSE i \in K : \A j \in K : i <= j

\* the first position at or after from that holds b'*', or Len + 1
FirstStar(chars, from) ==
    LET K == {i \in from..Len(chars) : chars[i] = STAR}
    IN IF K = {} THEN Len(chars) + 1 ELSE CHOOSE i \in K : \A j \in K : i <= j

\* NMEASentence::calculate_checksum: over the whole array, not only the
\* occupied bytes
calculate_checksum(f) ==
    LET first == SkipPrefixEnd(f.characters)
    IN XorRange(f.characters, first, FirstStar(f.characters, first) - 1)

\* char::is_whitespace for the chars U+0000..U+00FF a byte becomes
IsWhitespace(b) == b \in {9, 10, 11, 12, 13, 32, 133, 160}

\* str::trim
Trim(s) ==
    LET K == {i \in 1..Len(s) : ~IsWhitespace(s[i])}
    IN IF K = {} THEN <<>>
       ELSE SubSeq(s, CHOOSE i \in K : \A j \in K : i <= j,
                      CHOOSE i \in K : \A j \in K : i >= j)

\* char::to_digit(16), or -1
HexDigit(b) ==
    IF b >= 48 /\ b <= 57 THEN b - 48
    ELSE IF b >= 65 /\ b <= 70 THEN b - 55
    ELSE IF b >= 97 /\ b <= 102 THEN b - 87
    ELSE -1

\* the value of the hex digits d (all valid), most significant first
RECURSIVE HexValue(_, _)
HexValue(d, n) ==
    IF n = 0 THEN 0 ELSE 16 * HexValue(d, n - 1) + HexDigit(d[n])

\* u8::from_str_radix(s, 16): an optional '+', then one or more hex digits
\* whose value fits a u8
from_str_radix_16(s) ==
    LET d == IF Len(s) > 0 /\ s[1] = 43 THEN Tail(s) ELSE s
        N == {i \in 1..Len(d) : HexDigit(d[i]) > 0}
        sig == IF N = {} THEN <<>>
               ELSE SubSeq(d, CHOOSE i \in N : \A j \in N : i <= j, Len(d))
    IN IF Len(d) = 0 \/ \E i \in 1..Len(d) : HexDigit(d[i]) < 0
       THEN [ok |-> FALSE, value |-> 0]
       ELSE IF Len(sig) > 2 THEN [ok |-> FALSE, value |-> 0]
       ELSE [ok |-> TRUE, value |-> HexValue(sig, Len(sig))]

\* .unwrap_or_default()
UnwrapOrDefault(r) == IF r.ok THEN r.value ELSE 0

\* NMEASentence::parse_checksum: everything after the first b'*' of the
\* array, trimmed, read as a hexadecimal u8; 0 when that fails
parse_checksum(f) ==
    LET star == FirstStar(f.characters, 1)
        rest == SubSeq(f.characters, star + 1, Len(f.characters))
    IN UnwrapOrDefault(from_str_radix_16(Trim(rest)))

\* NMEASentence::valid
valid(f) == calculate_checksum(f) = parse_checksum(f)

---------------------------------------------------------------------------
(* The Address Classifier and Sentence Decoder. *)

Aborted == [aborted |-> TRUE]

NoAddress == [address_type |-> "None"]

\* &self.characters[a..b] (0-based, b excluded): aborts when a > b or b is
\* past the array
SliceOk(chars, a, b) == a <= b /\ b <= Len(chars)
Slice(chars, a, b) == SubSeq(chars, a + 1, b)

decode_approved_address(f) ==
    [address_type |-> "APPROVED",
     talker |-> <<f.characters[2], f.characters[3]>>,
     formatter |-> <<f.characters[4], f.characters[5], f.characters[6]>>]

decode_query_address(f) ==
    [address_type |-> "QUERY",
     listener |-> <<f.characters[2], f.characters[3]>>,
     talker |-> <<f.characters[4], f.characters[5]>>]

decode_proprietary_address(f) ==
    [address_type |-> "PROPRIETARY",
     manufacturer |-> <<f.characters[2], f.characters[3], f.characters[4]>>]

InvalidContent(f) ==
    [aborted |-> FALSE, sentence_type |-> "INVALID", address |-> NoAddress,
     content |-> f.characters]

\* one arm of the match: the type, the address, and the content slice
\* characters[start..length - 3]
DecodeArm(f, type, address, start) ==
    IF SliceOk(f.characters, start, f.length - 3)
    THEN [aborted |-> FALSE, sentence_type |-> type, address |-> address,
          content |-> Slice(f.characters, start, f.length - 3)]
    ELSE Aborted

\* NMEASentence::decode
decode(f) ==
    IF f.length <= 5 THEN InvalidContent(f)
    ELSE IF f.characters[1] = BANG
         THEN DecodeArm(f, "ENCAPSULATION", decode_approved_address(f), 7)
    ELSE IF f.characters[1] = DOLLAR
         THEN IF f.characters[2] = 80
              THEN DecodeArm(f, "PROPRIETARY", decode_proprietary_address(f), 4)
              ELSE IF f.characters[6] = 81
                   THEN DecodeArm(f, "QUERY", decode_query_address(f), 6)
                   ELSE DecodeArm(f, "PARAMETRIC", decode_approved_address(f), 7)
    ELSE InvalidContent(f)

---------------------------------------------------------------------------
(* The Field Splitter. *)

\* slice::split(|&x| x == b','): the pieces between the separators, empty
\* pieces included
SplitOn(s, sep) ==
    LET at == SelectSeq(Indices(s), LAMBDA i : s[i] = sep)
        cut == <<0>> \o at \o <<Len(s) + 1>>
    IN [k \in 1..(Len(at) + 1) |-> SubSeq(s, cut[k] + 1, cut[k + 1] - 1)]

NonEmptyOnly(fs) == SelectSeq(fs, LAMBDA x : x # <<>>)

\* NMEADateContent::parse_content_fields
parse_content_fields_drops_empty(content) == NonEmptyOnly(SplitOn(content, COMMA))
parse_content_fields(content) == SplitOn(content, COMMA)

---------------------------------------------------------------------------
(* The harness of the pure functions: one argument, one application. *)

InitPure(kind, inputs) ==
    /\ input \in inputs
    /\ out = "none"
    /\ phase = "input"
    /\ pc = kind
    /\ source = <<>>
    /\ pos = 0
    /\ results = <<>>
    /\ idle = 0
    /\ map = NoMap
    /\ handled = <<>>

Apply(kind, result) ==
    /\ pc = kind
    /\ phase = "input"
    /\ out' = result
    /\ phase' = "done"
    /\ UNCHANGED <<source, pos, results, idle, pc, map, handled, input>>

Applied(kind) == pc = kind /\ phase = "done"

---------------------------------------------------------------------------
(* The checksum of frames as the reader emits them. *)

\* the bytes a sentence body is made of here: * , A 4 1
ChecksumAlphabet == {STAR, COMMA, 65, 52, 49}

\* '$', a body, CR LF
ChecksumFrames ==
    { FrameOf(<<DOLLAR>> \o b \o <<CR, LF>>, Len(b) + 3) :
        b \in SeqsUpTo(ChecksumAlphabet, MaxChecksumBody) }

InitChecksum == InitPure("checksum", ChecksumFrames)

\* sentence.valid()
Valid == Apply("checksum", valid(input))

NextChecksum == Valid

SpecChecksum == InitChecksum /\ [][NextChecksum]_vars

\* what C7 says valid() returns: the occupied bytes hold a `*`, the two bytes
\* after the first one are hex digits, and their value is the XOR of the
\* bytes after the skip-prefix and before that `*`
ChecksumFieldMatches(f) ==
    LET occ == Occupied(f)
        p == FirstStar(occ, 1)
    IN /\ p + 2 <= Len(occ)
       /\ HexDigit(occ[p + 1]) >= 0
       /\ HexDigit(occ[p + 2]) >= 0
       /\ 16 * HexDigit(occ[p + 1]) + HexDigit(occ[p + 2]) =
             XorRange(occ, SkipPrefixEnd(occ), p - 1)

\* C7 as stated: valid() is true exactly when the frame holds a `*` followed
\* by two hex digits whose value is the XOR of the bytes between the
\* skip-prefix and the `*`; a frame with no `*` or no two hex digits after it
\* is never valid.
C7_ValidIffChecksumFieldMatches ==
    Applied("checksum") => (out = ChecksumFieldMatches(input))

---------------------------------------------------------------------------
(* decode on frames of every length. *)

\* "$GABCD,1,2*47\r\n" with byte 0, byte 1 and byte 5 varied
DecodeText(b0, b1, b5) ==
    <<b0, b1, 65, 66, 67, b5, COMMA, 49, COMMA, 50, STAR, 52, 55, CR, LF>>

\* a frame that fills the whole array
DecodeFull(b0, b1, b5) ==
    <<b0, b1, 65, 66, 67, b5, COMMA>> \o Run(CH_X, NMEA_SENTENCE_MAX_LENGTH - 12)
        \o <<STAR, 52, 55, CR, LF>>

\* frames of length 0..MaxDecodeLen whose array holds the first bytes of a
\* text (all of it when stale: bytes beyond the length are left in place),
\* and frames of the full length
DecodeFrames ==
    LET B0 == {DOLLAR, BANG, 65}
        B1 == {80, 71}
        B5 == {81, 68}
    IN { FrameOf(IF stale THEN DecodeText(b0, b1, b5)
                 ELSE SubSeq(DecodeText(b0, b1, b5), 1, n), n) :
            b0 \in B0, b1 \in B1, b5 \in B5, n \in 0..MaxDecodeLen, stale \in BOOLEAN }
       \cup
       { FrameOf(DecodeFull(b0, b1, b5), NMEA_SENTENCE_MAX_LENGTH) :
            b0 \in B0, b1 \in B1, b5 \in B5 }

InitDecode == InitPure("decode", DecodeFrames)

\* sentence.decode()
Decode == Apply("decode", decode(input))

NextDecode == Decode

SpecDecode == InitDecode /\ [][NextDecode]_vars

\* what C5 lists for a frame f: the kind, the address and the payload
ClassifiedAs(f, r) ==
    LET c == f.characters
        approved == [address_type |-> "APPROVED", talker |-> <<c[2], c[3]>>,
                     formatter |-> <<c[4], c[5], c[6]>>]
    IN /\ c[1] = BANG =>
            /\ r.sentence_type = "ENCAPSULATION"
            /\ r.address = approved
            /\ r.content = SubSeq(c, 8, f.length - 3)
       /\ (c[1] = DOLLAR /\ c[2] = 80) =>
            /\ r.sentence_type = "PROPRIETARY"
            /\ r.address = [address_type |-> "PROPRIETARY",
                            manufacturer |-> <<c[2], c[3], c[4]>>]
            /\ r.content = SubSeq(c, 5, f.length - 3)
       /\ (c[1] = DOLLAR /\ c[2] # 80 /\ c[6] = 81) =>
            /\ r.sentence_type = "QUERY"
            /\ r.address = [address_type |-> "QUERY", listener |-> <<c[2], c[3]>>,
                            talker |-> <<c[4], c[5]>>]
            /\ r.content = SubSeq(c, 7, f.length - 3)
       /\ (c[1] = DOLLAR /\ c[2] # 80 /\ c[6] # 81) =>
            /\ r.sentence_type = "PARAMETRIC"
            /\ r.address = approved
            /\ r.content = SubSeq(c, 8, f.length - 3)

\* C5 as stated: for every frame of occupied length greater than 5 decode
\* classifies from bytes 0, 1 and 5 (`!` Encapsulation, `$P` Proprietary,
\* `$....Q` Query, other `$` Parametric), with the address of the kind's
\* shape and the payload from the kind's offset to length - 3.
C5_DecodeClassifiesEveryLongFrame ==
    (Applied("decode") /\ input.length > 5) =>
        /\ ~out.aborted
        /\ ClassifiedAs(input, out)

\* the part of C5 the code keeps: whenever decode returns, the record is the
\* one C5 lists
C5_ClassifiedWhenReturned ==
    (Applied("decode") /\ input.length > 5 /\ ~out.aborted) =>
        ClassifiedAs(input, out)

\* C6 as stated: decode returns a record for every frame of length 0..82
\* without aborting; the record is Invalid, without address and with the raw
\* frame as payload exactly when the length is at most 5 or the leading byte
\* is neither `$` nor `!`; the address is absent only when the kind is Invalid.
C6_DecodeNeverAborts ==
    Applied("decode") =>
        /\ ~out.aborted
        /\ (/\ out.sentence_type = "INVALID"
            /\ out.address = NoAddress
            /\ out.content = input.characters)
           <=> (input.length <= 5 \/ input.characters[1] \notin {DOLLAR, BANG})
        /\ (out.address = NoAddress) <=> (out.sentence_type = "INVALID")

\* the part of C6 the code keeps: whenever decode returns
C6_InvalidWhenReturned ==
    (Applied("decode") /\ ~out.aborted) =>
        /\ (/\ out.sentence_type = "INVALID"
            /\ out.address = NoAddress
            /\ out.content = input.characters)
           <=> (input.length <= 5 \/ input.characters[1] \notin {DOLLAR, BANG})
        /\ (out.address = NoAddress) <=> (out.sentence_type = "INVALID")

---------------------------------------------------------------------------
(* parse_content_fields on payloads. *)

\* the payload of tests::test_parse_content:
\* "A,3,32,21,22,01,03,31,04,17,08,71,72,,1.50,0.90,1.20"
GSA_PAYLOAD ==
    <<65,44,51,44,51,50,44,50,49,44,50,50,44,48,49,44,48,51,44,51,49,44,48,52,
      44,49,55,44,48,56,44,55,49,44,55,50,44,44,49,46,53,48,44,48,46,57,48,44,
      49,46,50,48>>

\* every payload over , A 1 up to MaxPayloadLen bytes, and the test's payload
Payloads == SeqsUpTo({COMMA, 65, 49}, MaxPayloadLen) \cup {GSA_PAYLOAD}

InitSplit == InitPure("split", Payloads)

\* data.parse_content_fields()
ParseContentFields == Apply("split", parse_content_fields(input))

NextSplit == ParseContentFields

SpecSplit == InitSplit /\ [][NextSplit]_vars

Count(s, b) == Cardinality({i \in 1..Len(s) : s[i] = b})

RECURSIVE JoinFrom(_, _, _)
JoinFrom(fs, k, sep) ==
    IF k > Len(fs) THEN <<>>
    ELSE IF k = Len(fs) THEN fs[k]
    ELSE fs[k] \o <<sep>> \o JoinFrom(fs, k + 1, sep)

\* C8: the field sequence of a payload has (number of `,` + 1) fields, no
\* field holds a `,`, and joining the fields with `,` gives the payload back
\* (empty fields stay in place); the GSA payload of the test yields 17 fields
\* with the 14th empty.
C8_SplitIsStructural ==
    Applied("split") =>
        /\ Len(out) = Count(input, COMMA) + 1
        /\ \A k \in 1..Len(out) : Count(out[k], COMMA) = 0
        /\ JoinFrom(out, 1, COMMA) = input
        /\ input = GSA_PAYLOAD => (Len(out) = 17 /\ out[14] = <<>>)

\* the payload of the test has been split, its empty 14th field kept
C8_Witness ==
    Applied("split") /\ input = GSA_PAYLOAD /\ Len(out) = 17 /\ out[14] = <<>>

---------------------------------------------------------------------------
(* Number parsing, on fields as byte sequences.  A field becomes a String   *)
(* by  .map(|byte| *byte as char): a byte below 128 is one byte of the      *)
(* String, any other byte two.                                              *)

IsDigit(b) == b >= 48 /\ b <= 57

AllDigits(s) == \A i \in 1..Len(s) : IsDigit(s[i])

\* s without its leading b'0's
StripZeros(s) ==
    LET N == {i \in 1..Len(s) : s[i] # 48}
    IN IF N = {} THEN <<>> ELSE SubSeq(s, CHOOSE i \in N : \A j \in N : i <= j, Len(s))

\* the value of the first n decimal digits of d
RECURSIVE DecValue(_, _)
DecValue(d, n) == IF n = 0 THEN 0 ELSE 10 * DecValue(d, n - 1) + (d[n] - 48)

Err == [ok |-> FALSE]
Ok(v) == [ok |-> TRUE, value |-> v]

\* uN::from_str: an optional '+', one or more digits, a value up to max
\* (max has at most 5 digits)
ParseUnsigned(s, max) ==
    LET d == IF Len(s) > 0 /\ s[1] = 43 THEN Tail(s) ELSE s
        sig == StripZeros(d)
    IN IF Len(d) = 0 \/ ~AllDigits(d) \/ Len(sig) > 5 THEN Err
       ELSE IF DecValue(sig, Len(sig)) > max THEN Err
       ELSE Ok(DecValue(sig, Len(sig)))

ParseU8(s) == ParseUnsigned(s, 255)
ParseU16(s) == ParseUnsigned(s, 65535)

\* an f32 as the decimal it was written as: mant * 10^exp, mant without
\* trailing zeros (binary rounding is not modelled)
RECURSIVE Decimal(_, _, _)
Decimal(neg, mant, exp) ==
    IF mant = 0 THEN [neg |-> FALSE, mant |-> 0, exp |-> 0]
    ELSE IF mant % 10 = 0 THEN Decimal(neg, mant \div 10, exp + 1)
    ELSE [neg |-> neg, mant |-> mant, exp |-> exp]

\* 0.0
ZeroF32 == Decimal(FALSE, 0, 0)

ToLower(b) == IF b >= 65 /\ b <= 90 THEN b + 32 ELSE b

Lower(s) == [i \in 1..Len(s) |-> ToLower(s[i])]

\* "inf", "infinity", "nan"
SpecialFloats ==
    { <<105, 110, 102>>, <<105, 110, 102, 105, 110, 105, 116, 121>>, <<110, 97, 110>> }

\* an optional sign, then one or more digits
ParseExponent(x) ==
    LET neg == Len(x) > 0 /\ x[1] = 45
        d == IF Len(x) > 0 /\ x[1] \in {43, 45} THEN Tail(x) ELSE x
    IN IF Len(d) = 0 \/ ~AllDigits(d) THEN Err
       ELSE Ok(IF neg THEN 0 - DecValue(d, Len(d)) ELSE DecValue(d, Len(d)))

\* digits with at most one '.', at least one digit
ParseMantissa(m) ==
    LET dots == {i \in 1..Len(m) : m[i] = 46}
        digits == SelectSeq(m, IsDigit)
        frac == IF dots = {} THEN 0 ELSE Len(m) - (CHOOSE i \in dots : TRUE)
    IN IF Cardinality(dots) > 1 \/ Len(digits) = 0
          \/ \E i \in 1..Len(m) : ~IsDigit(m[i]) /\ m[i] # 46
       THEN Err
       ELSE Ok([mant |-> DecValue(digits, Len(digits)), frac |-> frac])

\* f32::from_str: [+-] then inf | infinity | nan (any case), or a decimal
\* number with an optional exponent
ParseF32(s) ==
    LET neg == Len(s) > 0 /\ s[1] = 45
        r == IF Len(s) > 0 /\ s[1] \in {43, 45} THEN Tail(s) ELSE s
        E == {i \in 1..Len(r) : r[i] \in {69, 101}}
        e == IF E = {} THEN Len(r) + 1 ELSE CHOOSE i \in E : \A j \in E : i <= j
        m == ParseMantissa(SubSeq(r, 1, e - 1))
        x == IF E = {} THEN Ok(0) ELSE ParseExponent(SubSeq(r, e + 1, Len(r)))
    IN IF Lower(r) \in SpecialFloats
       THEN Ok([neg |-> neg, special |-> Lower(r)])
       ELSE IF ~m.ok \/ ~x.ok THEN Err
       ELSE Ok(Decimal(neg, m.value.mant, x.value - m.value.frac))

\* .unwrap_or_default() / .unwrap_or(0.0) of an f32
F32OrZero(r) == IF r.ok THEN r.value ELSE ZeroF32

\* the String of a field: how many bytes the first k chars take
RECURSIVE Utf8Len(_, _)
Utf8Len(s, k) ==
    IF k = 0 THEN 0 ELSE Utf8Len(s, k - 1) + (IF s[k] < 128 THEN 1 ELSE 2)

\* byte offset n of the String of s is a char boundary: the number of chars
\* before it, or -1 (slicing there aborts)
CharsBefore(s, n) ==
    LET K == {k \in 0..Len(s) : Utf8Len(s, k) = n}
    IN IF K = {} THEN -1 ELSE CHOOSE k \in K : TRUE

---------------------------------------------------------------------------
(* Coordinates. *)

Coordinate(degrees, minutes, direction) ==
    [degrees |-> degrees, minutes |-> minutes, direction |-> direction]

\* Coordinate::default()
DefaultCoordinate == Coordinate(0, ZeroF32, CH_X)

\* the body shared by from_latitude_string (width 2, N/S) and
\* from_longitude_string (width 3, E/W): Ok(coordinate), Err, or an abort
\* when coord[..width] does not fall on a char boundary
CoordinateFromString(coord, direction, width, directions) ==
    LET k == CharsBefore(coord, width)
        degrees == ParseU16(SubSeq(coord, 1, k))
        minutes == ParseF32(SubSeq(coord, k + 1, Len(coord)))
    IN IF Utf8Len(coord, Len(coord)) < width + 2 THEN [ok |-> FALSE, aborted |-> FALSE]
       ELSE IF k < 0 THEN [ok |-> FALSE, aborted |-> TRUE]
       ELSE IF ~degrees.ok \/ ~minutes.ok THEN [ok |-> FALSE, aborted |-> FALSE]
       ELSE IF direction \notin directions THEN [ok |-> FALSE, aborted |-> FALSE]
       ELSE [ok |-> TRUE, aborted |-> FALSE,
             value |-> Coordinate(degrees.value, minutes.value, direction)]

from_latitude_string(coord, direction) ==
    CoordinateFromString(coord, direction, 2, {78, 83})

from_longitude_string(coord, direction) ==
    CoordinateFromString(coord, direction, 3, {69, 87})

---------------------------------------------------------------------------
(* Times: NaiveTime::parse_from_str with "%H%M%S%.f" and "%H%M%S", for     *)
(* fields without whitespace.                                              *)

\* scan::number(s, 1, width) at position i: one to width digits
TakeNumber(s, i, width) ==
    LET n == IF i + 1 <= Len(s) /\ width >= 2 /\ IsDigit(s[i]) /\ IsDigit(s[i + 1]) THEN 2
             ELSE IF i <= Len(s) /\ IsDigit(s[i]) THEN 1 ELSE 0
    IN IF n = 0 THEN [ok |-> FALSE, value |-> 0, next |-> i]
       ELSE [ok |-> TRUE, value |-> DecValue(SubSeq(s, i, i + n - 1), n), next |-> i + n]

\* the digits of a fraction as nanoseconds: the first nine, padded with zeros
RECURSIVE Nanos(_, _)
Nanos(d, n) ==
    IF n = 0 THEN 0
    ELSE 10 * Nanos(d, n - 1) + (IF n <= Len(d) THEN d[n] - 48 ELSE 0)

\* "%.f": nothing, or '.' and one or more digits
TakeFraction(s, i) ==
    LET N == {j \in (i + 1)..Len(s) : ~IsDigit(s[j])}
        end == IF N = {} THEN Len(s) + 1 ELSE CHOOSE j \in N : \A h \in N : j <= h
    IN IF i > Len(s) \/ s[i] # 46 THEN [ok |-> TRUE, value |-> 0, next |-> i]
       ELSE IF end = i + 1 THEN [ok |-> FALSE, value |-> 0, next |-> i]
       ELSE [ok |-> TRUE, value |-> Nanos(SubSeq(s, i + 1, end - 1), 9), next |-> end]

NaiveTime(h, m, s, nano) == [hour |-> h, minute |-> m, second |-> s, nano |-> nano]

\* NaiveTime::default()
DefaultTime == NaiveTime(0, 0, 0, 0)

NaiveTime_parse_from_str(s, fraction) ==
    LET h == TakeNumber(s, 1, 2)
        m == TakeNumber(s, h.next, 2)
        sec == TakeNumber(s, m.next, 2)
        f == IF fraction THEN TakeFraction(s, sec.next)
             ELSE [ok |-> TRUE, value |-> 0, next |-> sec.next]
    IN IF ~h.ok \/ ~m.ok \/ ~sec.ok \/ ~f.ok THEN Err
       ELSE IF f.next # Len(s) + 1 THEN Err
       ELSE IF h.value > 23 \/ m.value > 59 \/ sec.value > 60 THEN Err
       ELSE IF sec.value = 60
            THEN Ok(NaiveTime(h.value, m.value, 59, f.value + 1000000000))
            ELSE Ok(NaiveTime(h.value, m.value, sec.value, f.value))

\* the time field of GGA: with the fraction, else without, else the default
ParseTime(s) ==
    LET a == NaiveTime_parse_from_str(s, TRUE)
        b == NaiveTime_parse_from_str(s, FALSE)
    IN IF a.ok THEN a.value ELSE IF b.ok THEN b.value ELSE DefaultTime

---------------------------------------------------------------------------
(* The formatter parsers. *)

\* GPSQuality::from_char
GPSQuality_from_char(b) ==
    CASE b = 48 -> "Invalid"
      [] b = 49 -> "SPS"
      [] b = 50 -> "Differential"
      [] b = 51 -> "PPS"
      [] b = 52 -> "RTKFixed"
      [] b = 53 -> "RTKFloat"
      [] b = 54 -> "Estimated"
      [] b = 55 -> "Manual"
      [] b = 56 -> "Simulator"
      [] OTHER -> "Invalid"

\* *field.get(0).unwrap_or(&b'X')
FirstByteOrX(field) == IF Len(field) > 0 THEN field[1] ELSE CH_X

\* the record GGA::from_field builds once every index is in range
GGARecord(fields, latitude, longitude) ==
    LET satellites == ParseU8(fields[7])
        hdop == ParseF32(fields[8])
        altitude == ParseF32(fields[9])
        station == ParseU16(fields[14])
        downgraded == ~latitude.ok \/ ~longitude.ok \/ ~satellites.ok
                         \/ ~hdop.ok \/ ~altitude.ok
    IN [aborted |-> FALSE,
        time |-> ParseTime(fields[1]),
        latitude |-> IF latitude.ok THEN latitude.value ELSE DefaultCoordinate,
        longitude |-> IF longitude.ok THEN longitude.value ELSE DefaultCoordinate,
        gps_quality |-> IF downgraded THEN "Invalid"
                        ELSE GPSQuality_from_char(fields[6][1]),
        satellites_in_use |-> IF satellites.ok THEN satellites.value ELSE 0,
        hdop |-> F32OrZero(hdop),
        altitude |-> F32OrZero(altitude),
        geoidal_separation |-> F32OrZero(ParseF32(fields[11])),
        age_of_differential_gps |-> F32OrZero(ParseF32(fields[13])),
        differential_station_id |-> IF station.ok THEN station.value ELSE 0]

\* the quality field is read (fields[5][0]) only when nothing has set
\* gps_quality to Invalid before
GGAReadsQuality(fields, latitude, longitude) ==
    /\ latitude.ok /\ longitude.ok
    /\ ParseU8(fields[7]).ok /\ ParseF32(fields[8]).ok /\ ParseF32(fields[9]).ok

\* GGA::from_field: aborts on an index out of range (fewer than 14 fields, or
\* an empty quality field that is read) and on a coordinate cut inside a char
GGA_from_field(fields) ==
    IF Len(fields) < 14 THEN Aborted
    ELSE LET latitude == from_latitude_string(fields[2], FirstByteOrX(fields[3]))
             longitude == from_longitude_string(fields[4], FirstByteOrX(fields[5]))
         IN IF latitude.aborted \/ longitude.aborted THEN Aborted
            ELSE IF GGAReadsQuality(fields, latitude, longitude) /\ Len(fields[6]) = 0
                 THEN Aborted
            ELSE GGARecord(fields, latitude, longitude)

\* GSAOperationModeConfig::from_field
GSAOperationModeConfig_from_field(field) ==
    IF field = <<77>> THEN "Manuel"
    ELSE IF field = <<65>> THEN "Automatic"
    ELSE "Invalid"

\* GSAOperationMode::from_field
GSAOperationMode_from_field(field) ==
    IF field = <<49>> THEN "FixNotAvailable"
    ELSE IF field = <<50>> THEN "TwoDimensional"
    ELSE IF field = <<51>> THEN "ThreeDimensional"
    ELSE "Invalid"

HasDot(field) == \E i \in 1..Len(field) : field[i] = 46

\* .skip(2).take_while(no '.').filter(not empty).map(u8 or 0)
GSASatelliteIds(fields) ==
    LET D == {k \in 3..Len(fields) : HasDot(fields[k])}
        stop == IF D = {} THEN Len(fields) + 1 ELSE CHOOSE k \in D : \A j \in D : k <= j
        taken == SubSeq(fields, 3, stop - 1)
        kept == SelectSeq(taken, LAMBDA x : x # <<>>)
    IN [k \in 1..Len(kept) |->
           IF ParseU8(kept[k]).ok THEN ParseU8(kept[k]).value ELSE 0]

\* GSA::from_field: vdop, hdop, pdop are the last three fields; aborts with
\* fewer than three fields (fields.len() - 3 underflows or is out of range)
GSA_from_field(fields) ==
    IF Len(fields) < 3 THEN Aborted
    ELSE [aborted |-> FALSE,
          config |-> GSAOperationModeConfig_from_field(fields[1]),
          mode |-> GSAOperationMode_from_field(fields[2]),
          satellite_ids |-> GSASatelliteIds(fields),
          pdop |-> F32OrZero(ParseF32(fields[Len(fields) - 2])),
          hdop |-> F32OrZero(ParseF32(fields[Len(fields) - 1])),
          vdop |-> F32OrZero(ParseF32(fields[Len(fields)]))]

\* DPT::from_field: aborts with fewer than three fields
DPT_from_field(fields) ==
    IF Len(fields) < 3 THEN Aborted
    ELSE [aborted |-> FALSE,
          depth |-> F32OrZero(ParseF32(fields[1])),
          offset |-> F32OrZero(ParseF32(fields[2])),
          range_scale |-> F32OrZero(ParseF32(fields[3]))]

---------------------------------------------------------------------------
(* The formatter parsers on field sequences of the Field Splitter. *)

\* how many fields of a test vector are replaced at most
MaxBadFields == 2

\* the GGA fields: 123519,4807.038,N,01131.000,E,1,08,0.9,545.4,M,46.9,M,,
GGA_FIELDS ==
    <<<<49,50,51,53,49,57>>, <<52,56,48,55,46,48,51,56>>, <<78>>,
      <<48,49,49,51,49,46,48,48,48>>, <<69>>, <<49>>, <<48,56>>, <<48,46,57>>,
      <<53,52,53,46,52>>, <<77>>, <<52,54,46,57>>, <<77>>, <<>>, <<>>>>

\* the GSA fields of test_parse_gsa
GSA_FIELDS == parse_content_fields(GSA_PAYLOAD)

\* the DPT fields of test_parse_dpt: 87.4,0.0,
DPT_FIELDS == <<<<56,55,46,52>>, <<48,46,48>>, <<>>>>

\* what replaces a field: nothing, X, and 2 followed by a byte above 127
FieldAlternatives == {<<>>, <<CH_X>>, <<50, 176, 51, 52, 53>>}

\* the vector with at most k fields replaced
RECURSIVE Replaced(_, _)
Replaced(base, k) ==
    IF k = 0 THEN {base}
    ELSE LET P == Replaced(base, k - 1)
         IN P \cup { [f EXCEPT ![i] = a] :
                        f \in P, i \in 1..Len(base), a \in FieldAlternatives }

\* the vector cut after each of its fields (a split yields at least one)
Truncated(base) == { SubSeq(base, 1, n) : n \in 1..Len(base) }

\* the vector with one more field after its last
Extended(base) == { Append(base, a) : a \in FieldAlternatives }

FormatterInputs ==
    UNION { Replaced(b, MaxBadFields) \cup Truncated(b) \cup Extended(b) :
              b \in {GGA_FIELDS, GSA_FIELDS, DPT_FIELDS} }

InitFormatter == InitPure("formatter", FormatterInputs)

\* GGA::from_field(fields)
ParseGGA == Apply("formatter", [parser |-> "GGA", record |-> GGA_from_field(input)])

\* GSA::from_field(fields)
ParseGSA == Apply("formatter", [parser |-> "GSA", record |-> GSA_from_field(input)])

\* DPT::from_field(fields)
ParseDPT == Apply("formatter", [parser |-> "DPT", record |-> DPT_from_field(input)])

NextFormatter == ParseGGA \/ ParseGSA \/ ParseDPT

SpecFormatter == InitFormatter /\ [][NextFormatter]_vars

\* C9: every formatter parser (GGA, GSA, DPT) returns a record for every
\* field sequence the splitter can produce, with fewer fields than the
\* sentence defines or with empty fields too: the parse never aborts.
C9_FormatterParsersNeverAbort ==
    Applied("formatter") => ~out.record.aborted

\* the record fields C10 lists as untouched by a bad direction
SameBut(r, s, coordinate) ==
    \A k \in {"time", "latitude", "longitude", "satellites_in_use", "hdop",
              "altitude", "geoidal_separation", "age_of_differential_gps",
              "differential_station_id"} \ {coordinate} : r[k] = s[k]

\* C10, for one coordinate: a direction outside the allowed ones gives the
\* default coordinate and quality Invalid, and every other field is what the
\* same fields give with an allowed direction
BadDirectionDowngrades(fields, r, at, allowed, coordinate) ==
    LET reference == GGA_from_field([fields EXCEPT ![at] = <<allowed>>])
    IN /\ ~r.aborted
       /\ r[coordinate] = DefaultCoordinate
       /\ r.gps_quality = "Invalid"
       /\ ~reference.aborted => SameBut(r, reference, coordinate)

\* C10: in the GGA parser with 14 fields, a latitude direction other than N
\* or S (a longitude direction other than E or W) yields the default
\* coordinate and quality Invalid whatever the quality field says, the other
\* fields being as with a valid direction; and when latitude, longitude,
\* satellite count, hdop and altitude all parse, the quality is the table
\* value of the quality field's first byte.
C10_DirectionDowngradeAndQualityTable ==
    (Applied("formatter") /\ out.parser = "GGA" /\ Len(input) = 14) =>
        LET r == out.record
            latitude == from_latitude_string(input[2], FirstByteOrX(input[3]))
            longitude == from_longitude_string(input[4], FirstByteOrX(input[5]))
        IN /\ FirstByteOrX(input[3]) \notin {78, 83} =>
                 BadDirectionDowngrades(input, r, 3, 78, "latitude")
           /\ FirstByteOrX(input[5]) \notin {69, 87} =>
                 BadDirectionDowngrades(input, r, 5, 69, "longitude")
           /\ (/\ latitude.ok /\ longitude.ok /\ ParseU8(input[7]).ok
               /\ ParseF32(input[8]).ok /\ ParseF32(input[9]).ok) =>
                 /\ ~r.aborted
                 /\ Len(input[6]) > 0 => r.gps_quality = GPSQuality_from_char(input[6][1])

---------------------------------------------------------------------------
(* The driver: main's loop over the sentences of a byte source. *)

\* how many vocabulary lines make up the byte source of the driver
MaxLines == 3

\* a GGA sentence: $GPGGA,123519,4807.038,N,01131.000,E,1,08,0.9,545.4,M,46.9,M,,*47\r\n
GGA_SENTENCE ==
    <<36,71,80,71,71,65,44,49,50,51,53,49,57,44,52,56,48,55,46,48,51,56,44,
      78,44,48,49,49,51,49,46,48,48,48,44,69,44,49,44,48,56,44,48,46,57,44,
      53,52,53,46,52,44,77,44,52,54,46,57,44,77,44,44,42,52,55,13,10>>

\* the GGA sentence with a checksum that does not match: $GPGGA,123519,4807.038,N,01131.000,E,1,08,0.9,545.4,M,46.9,M,,*00\r\n
GGA_BAD_CHECKSUM ==
    <<36,71,80,71,71,65,44,49,50,51,53,49,57,44,52,56,48,55,46,48,51,56,44,
      78,44,48,49,49,51,49,46,48,48,48,44,69,44,49,44,48,56,44,48,46,57,44,
      53,52,53,46,52,44,77,44,52,54,46,57,44,77,44,44,42,48,48,13,10>>

\* the GGA sentence with an empty quality field: $GPGGA,123519,4807.038,N,01131.000,E,,08,0.9,545.4,M,46.9,M,,*76\r\n
GGA_NO_QUALITY ==
    <<36,71,80,71,71,65,44,49,50,51,53,49,57,44,52,56,48,55,46,48,51,56,44,
      78,44,48,49,49,51,49,46,48,48,48,44,69,44,44,48,56,44,48,46,57,44,53,
      52,53,46,52,44,77,44,52,54,46,57,44,77,44,44,42,55,54,13,10>>

\* a GSA sentence: $GPGSA,A,3,32,21,22,01,03,31,04,17,08,71,72,,1.50,0.90,1.20*07\r\n
GSA_SENTENCE ==
    <<36,71,80,71,83,65,44,65,44,51,44,51,50,44,50,49,44,50,50,44,48,49,44,
      48,51,44,51,49,44,48,52,44,49,55,44,48,56,44,55,49,44,55,50,44,44,49,
      46,53,48,44,48,46,57,48,44,49,46,50,48,42,48,55,13,10>>

\* a DPT sentence: $SDDPT,87.4,0.0,*40\r\n
DPT_SENTENCE ==
    <<36,83,68,68,80,84,44,56,55,46,52,44,48,46,48,44,42,52,48,13,10>>

\* a sentence of a formatter without a parser: $GPRMC,123519,A*07\r\n
RMC_SENTENCE ==
    <<36,71,80,82,77,67,44,49,50,51,53,49,57,44,65,42,48,55,13,10>>

\* a query sentence: $CCGPQ,GGA*2B\r\n
QUERY_SENTENCE ==
    <<36,67,67,71,80,81,44,71,71,65,42,50,66,13,10>>

\* a proprietary sentence: $PABC,1,2*13\r\n
PROPRIETARY_SENTENCE ==
    <<36,80,65,66,67,44,49,44,50,42,49,51,13,10>>

\* an encapsulation sentence: !AIVDM,1,1,,A,X,0*7E\r\n
ENCAPSULATION_SENTENCE ==
    <<33,65,73,86,68,77,44,49,44,49,44,44,65,44,88,44,48,42,55,69,13,10>>

\* a line without a sentence: XX\r\n
NOISE_LINE ==
    <<88,88,13,10>>

\* a sentence too short for its payload slice: $GPGG\r\n
SHORT_PARAMETRIC == <<DOLLAR, 71, 80, 71, 71, CR, LF>>

DriverVocabulary ==
    {GGA_SENTENCE, GGA_BAD_CHECKSUM, GGA_NO_QUALITY, GSA_SENTENCE, DPT_SENTENCE,
     RMC_SENTENCE, QUERY_SENTENCE, PROPRIETARY_SENTENCE, ENCAPSULATION_SENTENCE,
     NOISE_LINE, SHORT_SENTENCE, SHORT_PARAMETRIC}

DriverStreams == Concats(DriverVocabulary, MaxLines)

\* the registry: GGA, GSA and DPT have a parser, any other code is unhandled
select_sentence_formatter(formatter, fields) ==
    IF formatter = <<71, 71, 65>> THEN [content |-> "GGA", record |-> GGA_from_field(fields)]
    ELSE IF formatter = <<71, 83, 65>> THEN [content |-> "GSA", record |-> GSA_from_field(fields)]
    ELSE IF formatter = <<68, 80, 84>> THEN [content |-> "DPT", record |-> DPT_from_field(fields)]
    ELSE [content |-> "TODO", record |-> [aborted |-> FALSE]]

\* the per-formatter counter of main
Counted(m, formatter) ==
    IF formatter \in DOMAIN m THEN [m EXCEPT ![formatter] = @ + 1]
    ELSE [k \in DOMAIN m \cup {formatter} |-> IF k = formatter THEN 1 ELSE m[k]]

\* what one sentence does to the loop: "next" to go on, "panic" on an abort
Dispatch(f) ==
    LET data == decode(f) IN
    IF data.aborted THEN [to |-> "panic", type |-> "none", formatter |-> <<>>]
    ELSE IF data.sentence_type = "QUERY"
         THEN [to |-> "panic", type |-> "QUERY", formatter |-> <<>>]
    ELSE IF data.sentence_type = "PARAMETRIC"
         THEN LET formatter == data.address.formatter
                  content == select_sentence_formatter(
                                 formatter, parse_content_fields(data.content))
              IN [to |-> IF content.record.aborted THEN "panic" ELSE "next",
                  type |-> "PARAMETRIC", formatter |-> formatter]
    ELSE [to |-> "next", type |-> data.sentence_type, formatter |-> <<>>]

Init ==
    /\ source \in DriverStreams
    /\ pos = 0
    /\ results = <<>>
    /\ idle = 0
    /\ pc = "loop"
    /\ map = NoMap
    /\ handled = <<>>
    /\ input = NoFrame
    /\ out = NoFrame
    /\ phase = "none"

\* one turn of main's loop: next(), valid(), decode(), the counter, the parser
MainLoop ==
    /\ pc = "loop"
    /\ LET ret == next(source, pos)
           e == LineEnd(source, pos + 1)
       IN /\ pos' = e
          /\ IF ret.tag = "Panic"
             THEN /\ pc' = "panic"
                  /\ UNCHANGED <<map, handled>>
             ELSE IF ret.tag = "None"
             THEN /\ pc' = "done"
                  /\ UNCHANGED <<map, handled>>
             ELSE LET d == Dispatch(ret) IN
                  /\ pc' = IF d.to = "panic" THEN "panic" ELSE "loop"
                  /\ map' = IF d.type = "PARAMETRIC" THEN Counted(map, d.formatter)
                            ELSE map
                  /\ handled' = Append(handled,
                                   [to |-> e, valid |-> valid(ret), type |-> d.type,
                                    decoded |-> d.to # "panic"])
    /\ UNCHANGED <<source, results, idle, input, out, phase>>

Next == MainLoop

\* the loop is never blocked: it takes its next turn
Spec == Init /\ [][Next]_vars /\ WF_vars(Next)

\* a later line of the source still holds a frame next() would emit
FrameRemains ==
    \E p \in pos..(Len(source) - 1) :
        /\ p = pos \/ source[p] = LF
        /\ next(source, p).tag = "Some"

\* C3: the driver loop runs to the end of the stream; no line content (a line
\* without a complete frame, a checksum mismatch, a sentence of kind Invalid,
\* Query, Proprietary or Encapsulation) makes it stop or abort before the
\* byte source is exhausted, so it never aborts and never stops while the
\* source still holds a frame.
C3_DriverRunsToEndOfStream ==
    /\ pc # "panic"
    /\ pc = "done" => ~FrameRemains

---------------------------------------------------------------------------
(* The GSA parser and field positions. *)

\* the satellite ids C11 describes: the non-empty fields among positions
\* 2..13, each as its number or 0
FixedPositionIds(fields) ==
    LET kept == SelectSeq(SubSeq(fields, 3, 14), LAMBDA x : x # <<>>)
    IN [k \in 1..Len(kept) |->
           IF ParseU8(kept[k]).ok THEN ParseU8(kept[k]).value ELSE 0]

\* C11: the GSA parser reads fields by position counted from the start: with
\* at least 17 fields, config is from field 0 (A, M, else Invalid), mode from
\* field 1 (1, 2, 3, else Invalid), satellite_ids are the non-empty fields of
\* positions 2..13 (number or 0), and pdop, hdop, vdop are positions 14, 15,
\* 16 whatever follows position 16.
C11_GSAReadsFixedPositions ==
    (Applied("formatter") /\ out.parser = "GSA" /\ Len(input) >= 17) =>
        LET r == out.record IN
        /\ ~r.aborted
        /\ r.config = (IF input[1] = <<65>> THEN "Automatic"
                       ELSE IF input[1] = <<77>> THEN "Manuel" ELSE "Invalid")
        /\ r.mode = (IF input[2] = <<49>> THEN "FixNotAvailable"
                     ELSE IF input[2] = <<50>> THEN "TwoDimensional"
                     ELSE IF input[2] = <<51>> THEN "ThreeDimensional"
                     ELSE "Invalid")
        /\ r.satellite_ids = FixedPositionIds(input)
        /\ r.pdop = F32OrZero(ParseF32(input[15]))
        /\ r.hdop = F32OrZero(ParseF32(input[16]))
        /\ r.vdop = F32OrZero(ParseF32(input[17]))

---------------------------------------------------------------------------
(* Checksum and decode on the frames the Sentence Reader emits. *)

\* the longest data part of a sentence read here
MaxFramedBody == 2

\* an upper-case hex digit
HexChar(d) == IF d < 10 THEN 48 + d ELSE 55 + d

\* start, address, ',', data, '*', the two hex digits of the XOR, CR LF
Sentence(start, address, data) ==
    LET body == address \o <<COMMA>> \o data
        sum == XorRange(body, 1, Len(body))
    IN <<start>> \o body \o <<STAR, HexChar(sum \div 16), HexChar(sum % 16), CR, LF>>

\* GPGGA, PABC, CCGPQ
FramedAddresses == {<<71, 80, 71, 71, 65>>, <<80, 65, 66, 67>>, <<67, 67, 71, 80, 81>>}

FramedSentences ==
    { Sentence(start, address, data) :
        start \in {DOLLAR, BANG}, address \in FramedAddresses,
        data \in SeqsUpTo({COMMA, 65, 49}, MaxFramedBody) }

\* a partial frame the reader drops at the byte after its CR: '$', 20 X, CR, X
DROPPED_PARTIAL == <<DOLLAR>> \o Run(CH_X, 20) \o <<CR, CH_X>>

\* a sentence alone on its line, or after a dropped partial frame
FramedLines ==
    { prefix \o s : prefix \in {<<>>, DROPPED_PARTIAL}, s \in FramedSentences }

\* the frame is what next() returns for the line
InitFramed ==
    /\ source \in FramedLines
    /\ next(source, 0).tag = "Some"
    /\ input = next(source, 0)
    /\ out = "none"
    /\ phase = "input"
    /\ pc = "framed"
    /\ pos = Len(source)
    /\ results = <<>>
    /\ idle = 0
    /\ map = NoMap
    /\ handled = <<>>

\* sentence.valid(), with the two checksums the driver logs
FramedValid ==
    Apply("framed", [op |-> "valid",
                     calculated |-> calculate_checksum(input),
                     parsed |-> parse_checksum(input),
                     valid |-> valid(input)])

\* sentence.decode()
FramedDecode == Apply("framed", [op |-> "decode", data |-> decode(input)])

NextFramed == FramedValid \/ FramedDecode

SpecFramed == InitFramed /\ [][NextFramed]_vars

\* C12: for every frame the reader emits that decode classifies as
\* Parametric, Encapsulation, Query or Proprietary, the payload holds only
\* the bytes between the address prefix and the `*`: no `*`, no checksum
\* digit, no CR, no LF; it ends right before the `*`.
C12_PayloadEndsBeforeStar ==
    (Applied("framed") /\ out.op = "decode" /\ ~out.data.aborted
        /\ out.data.sentence_type # "INVALID") =>
        LET occupied == Occupied(input)
            star == FirstStar(occupied, 1)
            content == out.data.content
        IN /\ \A i \in 1..Len(content) : content[i] \notin {STAR, CR, LF}
           /\ Len(content) < star
           /\ content = SubSeq(occupied, star - Len(content), star - 1)

\* the frame with the same occupied bytes and a blank rest of the buffer
Blanked(f) == FrameOf(Occupied(f), f.length)

\* C13: bytes beyond a frame's occupied length are never interpreted:
\* calculate_checksum, parse_checksum, valid and decode give the same on two
\* frames with the same occupied bytes, whatever the rest of the buffer holds
\* (here: what a dropped partial frame left there, against blanks).
C13_BytesBeyondLengthIgnored ==
    Applied("framed") =>
        IF out.op = "valid"
        THEN /\ out.calculated = calculate_checksum(Blanked(input))
             /\ out.parsed = parse_checksum(Blanked(input))
             /\ out.valid = valid(Blanked(input))
        ELSE out.data = decode(Blanked(input))

---------------------------------------------------------------------------
(* valid() on frames with one bit of the payload flipped. *)

\* the longest data part of a sentence whose bits are flipped
MaxFlipBody == 3

\* the data bytes: z + 1 ,
FlipAlphabet == {122, 43, 49, COMMA}

\* "$GPGGA,<data>*hh\r\n" and "$PABC,<data>*hh\r\n" as frames
FlipFrames ==
    { FrameOf(Sentence(DOLLAR, address, data),
              Len(Sentence(DOLLAR, address, data))) :
        address \in {<<71, 80, 71, 71, 65>>, <<80, 65, 66, 67>>},
        data \in SeqsUpTo(FlipAlphabet, MaxFlipBody) }

InitFlip == InitPure("flip", FlipFrames)

RECURSIVE Pow2(_)
Pow2(n) == IF n = 0 THEN 1 ELSE 2 * Pow2(n - 1)

\* the byte with one bit inverted
FlipBitOf(byte, bit) ==
    IF (byte \div Pow2(bit)) % 2 = 1 THEN byte - Pow2(bit) ELSE byte + Pow2(bit)

\* the frame with one bit of the byte at index i inverted
Flipped(f, i, bit) ==
    [f EXCEPT !.characters[i] = FlipBitOf(f.characters[i], bit)]

\* the indices of the payload: from the payload start of decode to the `*`
PayloadIndices(f) ==
    LET start == IF f.characters[2] = 80 THEN 4 ELSE 7
    IN (start + 1)..(FirstStar(f.characters, 1) - 1)

\* sentence.valid() on the frame with one payload bit flipped
ValidFlipped ==
    \E i \in PayloadIndices(input), bit \in 0..7 :
        Apply("flip", [at |-> i, bit |-> bit, valid |-> valid(Flipped(input, i, bit))])

NextFlip == ValidFlipped

SpecFlip == InitFlip /\ [][NextFlip]_vars

\* C14: on a frame for which valid() is true, flipping any one bit of any
\* one payload byte gives a frame for which valid() is false, also when the
\* flip turns the byte into `*`, `,`, `$` or `!`.
C14_BitFlipIsDetected ==
    (Applied("flip") /\ valid(input)) => ~out.valid

---------------------------------------------------------------------------
(* The shape of the frames the Sentence Reader emits. *)

\* the frame is a start byte, bytes other than CR and LF, then CR LF
FrameShape(f) ==
    /\ 3 <= f.length /\ f.length <= NMEA_SENTENCE_MAX_LENGTH
    /\ IsStartByte(f.characters[1])
    /\ f.characters[f.length - 1] = CR
    /\ f.characters[f.length] = LF
    /\ \A i \in 2..(f.length - 2) : f.characters[i] \notin {CR, LF}

\* C15: every write of the scan goes to an index below 82 (no call of next()
\* ends in an index out of range); every emitted frame has length 3..82,
\* starts with `$` or `!`, has CR at length-2 and LF at length-1 and no CR or
\* LF elsewhere after the start byte; a stream without `$` and `!` gives no
\* frame.
C15_WritesInBoundsAndFrameShape ==
    /\ \A k \in 1..Len(results) :
          /\ results[k].ret.tag # "Panic"
          /\ IsSome(results[k]) => FrameShape(results[k].ret)
    /\ (\A i \in 1..Len(source) : ~IsStartByte(source[i])) =>
          \A k \in 1..Len(results) : IsNone(results[k])

\* a frame of the full 82 bytes has been emitted
C15_Witness ==
    \E k \in 1..Len(results) :
        /\ IsSome(results[k])
        /\ results[k].ret.length = NMEA_SENTENCE_MAX_LENGTH
        /\ FrameShape(results[k].ret)

====
